---- MODULE Spec2Model ----
(***************************************************************************)
(* Geo_model / Predictor / Ens_predictor of lib/forecastlib/models.py as a *)
(* state machine.                                                          *)
(*                                                                         *)
(* Arrays are sequences of elements [d, bad, tr]:                          *)
(*   d   the calendar period the value belongs to (-1 for a nan marker),   *)
(*   bad TRUE for a zero / missing value (a transform is undefined there), *)
(*   tr  the transform depth: logit_percent adds 1, inverse_logit_percent  *)
(*       subtracts 1, gtlog adds LogStep.                                  *)
(* Dates are period numbers; the calendar of a data set that starts at     *)
(* use_data_from is use_data_from, use_data_from + 1, ...                  *)
(* The input mapping of Geo_model and of every Predictor is a dict object  *)
(* that the code updates in place, so dicts live in a heap (dicts) and the *)
(* objects hold dict ids.  Arrays and lists are never written in place by  *)
(* models.py (slices are re-bound), so they are values.                    *)
(* An optional array (None until set) is <<>> or <<array>>.                *)
(***************************************************************************)
EXTENDS Integers, Sequences, FiniteSets, TLC

VARIABLES geo, dicts, model_list, last, prev, hung, calls

vars == <<geo, dicts, model_list, last, prev, hung, calls>>

----------------------------------------------------------------------------
(* Bounds of the model *)

MaxLen == 5          \* longest target series that data_load produces
MaxUnits == 2        \* most units kept in model_list
MaxCalls == 2        \* most calls made on the units of one Geo_model

(* Program constants *)

UseDataFrom == 10    \* period number of use_data_from
WeekDefault == 104   \* default train_len for resolution 'week'
MonthDefault == 24   \* default train_len for resolution 'month'
LogStep == 10        \* transform-depth step of gtlog (distinct from logit)
DefaultStart == 156  \* weeks from use_data_from 2010-01-03 to pred_start_date 2013-01-06
ScenarioLen == 260   \* target length of the five-year weekly data set

----------------------------------------------------------------------------
(* Values *)

NaN == [d |-> -1, bad |-> TRUE, tr |-> 0]
None == <<>>
Some(a) == <<a>>
NoDict == -1
GeoDict == 0
AllSentinel == <<"*all*">>        \* the string 'all' (input_vars, model_labels)
NotIterable == <<"*int*">>        \* a model_labels argument that is not a container
TrainDefault == -1                \* the string 'default' for train_len

Min(a, b) == IF a < b THEN a ELSE b
Max(a, b) == IF a > b THEN a ELSE b
SetMax(S) == CHOOSE x \in S : \A y \in S : y <= x

\* s[n:] (a negative n counts from the end)
Drop(s, n) ==
    LET k == IF n < 0 THEN Max(0, Len(s) + n) ELSE n
    IN IF k >= Len(s) THEN <<>> ELSE SubSeq(s, k + 1, Len(s))
\* s[:n] for n >= 0
Take(s, n) == SubSeq(s, 1, Min(n, Len(s)))
\* [x] * n
Repeat(x, n) == [i \in 1..n |-> x]
\* the element of a one-element set (binds a computed value once)
Only(S) == CHOOSE x \in S : TRUE

\* list.index(d): 0-based position of the first d, -1 for ValueError
IndexOf(cal, d) ==
    IF \E i \in 1..Len(cal) : cal[i] = d
    THEN (CHOOSE i \in 1..Len(cal) : cal[i] = d /\ \A j \in 1..(i - 1) : cal[j] # d) - 1
    ELSE -1

HasBad(a) == \E i \in 1..Len(a) : a[i].bad

\* processing_functions.logit_percent / gtlog / inverse_logit_percent on an array
Shift(a, k) == [i \in 1..Len(a) |-> IF a[i].d = -1 THEN a[i] ELSE [a[i] EXCEPT !.tr = @ + k]]
logit_percent(a) == Shift(a, 1)
gtlog(a) == Shift(a, LogStep)
inverse_logit_percent(a) == Shift(a, -1)
TransformFails(a) == HasBad(a)

\* loading_functions: a series of n observations starting at use_data_from,
\* with a zero at 1-based position z (0: none)
Series(n, z) == [i \in 1..n |-> [d |-> UseDataFrom + i - 1, bad |-> (i = z), tr |-> 0]]
create_datelist(n) == [i \in 1..n |-> UseDataFrom + i - 1]

\* processing_functions.create_ar_stack(target, lags): one row per target
\* position that has all its lags, len(target) - max(lags) rows
ArFails(target, lags) == SetMax(lags) > Len(target)
create_ar_stack(target, lags) ==
    LET L == SetMax(lags)
    IN [k \in 1..(Len(target) - L) |->
          [d   |-> target[L + k].d,
           bad |-> \E j \in lags : target[L + k - j].bad,
           tr  |-> target[L + k - 1].tr]]

----------------------------------------------------------------------------
(* Predictor.__init__ *)

NewPredictor(x, target, label, start_date, datelist, resolution) ==
    [kind |-> "Predictor", X |-> x, target |-> target, target_reserve |-> target,
     label |-> label, start_date |-> start_date, datelist |-> datelist,
     resolution |-> resolution, transform_target |-> FALSE, predictions |-> None]

\* Ens_predictor(**kwargs): only target, predictions, label, datelist are set
NewEns(target, predictions, label, datelist) ==
    [kind |-> "Ens", X |-> NoDict, target |-> target, target_reserve |-> <<>>,
     label |-> label, start_date |-> -1, datelist |-> datelist,
     resolution |-> "", transform_target |-> FALSE, predictions |-> Some(predictions)]

----------------------------------------------------------------------------------------------------------------------------------------
(* Inputs drawn by the callers *)

Labels == {"A", "B"}
LayerLabels == <<"A", "B", "C", "D">>
MaxHorizon == 3      \* horizon is an integer from 0 to 3

\* iteration orders of the input dict
OrderArFirst == <<"ar", "gt", "ath">>
OrderGtFirst == <<"gt", "ath", "ar">>

\* AR_terms: the default string 'None', a falsy value, an integer, a lag set
ArDefault == [kind |-> "str",  n |-> 0, lags |-> {}]
ArNone    == [kind |-> "none", n |-> 0, lags |-> {}]
ArInt(L)  == [kind |-> "int",  n |-> L, lags |-> 1..L]
ArSet(S)  == [kind |-> "set",  n |-> 0, lags |-> S]

\* data_process(transform_target, transform_ath, transform_gt, AR_terms) calls,
\* with the iteration order the input dict has during the call
DpCalls ==
    { [tt |-> t[1], ta |-> t[2], tg |-> t[2], ar |-> a[1], order |-> a[2]] :
        t \in { <<FALSE, FALSE>>, <<TRUE, FALSE>>, <<TRUE, TRUE>> },
        a \in { <<ArNone, OrderGtFirst>>, <<ArDefault, OrderGtFirst>>,
                <<ArInt(1), OrderGtFirst>>, <<ArInt(1), OrderArFirst>>,
                <<ArSet({2}), OrderGtFirst>> } }

\* predict(input_vars, horizon=, train_len=, in_sample=) calls
PredictCalls ==
    { [input_vars |-> <<"gt">>, horizon |-> h, train_len |-> 1, in_sample |-> FALSE] :
        h \in 0..MaxHorizon }
    \cup
    { [input_vars |-> <<"gt">>, horizon |-> t[1], train_len |-> t[2], in_sample |-> t[3]] :
        t \in { <<0, 2, FALSE>>, <<1, 2, TRUE>>, <<0, 1, TRUE>>, <<0, TrainDefault, FALSE>>,
                <<0, TrainDefault, TRUE>>, <<1, 0, FALSE>> } }
    \cup
    { [input_vars |-> iv, horizon |-> 0, train_len |-> 1, in_sample |-> FALSE] :
        iv \in { AllSentinel, <<"ar">>, <<"gt", "ar">> } }

DpFew ==
    { [tt |-> TRUE, ta |-> FALSE, tg |-> TRUE, ar |-> ArNone, order |-> OrderGtFirst],
      [tt |-> FALSE, ta |-> FALSE, tg |-> FALSE, ar |-> ArInt(1), order |-> OrderGtFirst],
      [tt |-> FALSE, ta |-> FALSE, tg |-> FALSE, ar |-> ArInt(1), order |-> OrderArFirst] }
PredictFew ==
    { [input_vars |-> <<"gt">>, horizon |-> 1, train_len |-> 1, in_sample |-> FALSE],
      [input_vars |-> <<"gt">>, horizon |-> 0, train_len |-> 2, in_sample |-> TRUE],
      [input_vars |-> <<"ar">>, horizon |-> 0, train_len |-> 1, in_sample |-> FALSE] }

\* data_load: the sources that are loaded and the series that contain a zero
DataSets == { <<{}, {}>>, <<{"gt"}, {}>>, <<{"gt", "ath"}, {"target", "gt", "ath"}>> }
DataSetsUnit ==
    DataSets \cup { <<{"gt", "ath"}, {}>>, <<{"gt", "ath"}, {"ath"}>>, <<{"gt"}, {"target"}>> }
TargetLens == {MaxLen - 1, MaxLen}

\* Geo_model(pred_start_date, resolution): offset of pred_start_date from
\* use_data_from in periods (the default lies after the short data sets)
Constructions == { <<2, "week">>, <<3, "month">>, <<DefaultStart, "week">> }

\* process_specs / predict_specs of init_prediction_layer (the same for every unit)
LayerSpecs ==
    { <<[tt |-> TRUE, ta |-> FALSE, tg |-> FALSE, ar |-> ArNone, order |-> OrderGtFirst],
        [input_vars |-> <<"gt">>, horizon |-> 1, train_len |-> 1, in_sample |-> FALSE]>>,
      <<[tt |-> FALSE, ta |-> FALSE, tg |-> FALSE, ar |-> ArInt(1), order |-> OrderGtFirst],
        [input_vars |-> <<"ar">>, horizon |-> 0, train_len |-> 1, in_sample |-> TRUE]>>,
      <<[tt |-> FALSE, ta |-> FALSE, tg |-> FALSE, ar |-> ArInt(1), order |-> OrderArFirst],
        [input_vars |-> <<"gt">>, horizon |-> 0, train_len |-> 1, in_sample |-> FALSE]>> }

\* model_labels / ind_labels arguments
LabelLists == { <<"A">>, <<"A", "B">>, <<"Z">> }

\* the first key of a dict with these keys under an iteration order
FirstKey(keys, order) ==
    order[CHOOSE i \in 1..Len(order) :
            order[i] \in keys /\ \A j \in 1..(i - 1) : order[j] \notin keys]

----------------------------------------------------------------------------
(* Predictor.data_process: m is the unit, ds the dict heap.                *)
(* Result: the unit and heap after the call, the exception that left the   *)
(* call ("ok": none) and whether the call never returns.                   *)

\* (variant: the flag is set before the transform is tried and never reset)
DpTargetFlagFirst(m, tt) ==
    IF ~tt THEN m
    ELSE IF TransformFails(m.target)
         THEN [m EXCEPT !.transform_target = TRUE]
         ELSE [m EXCEPT !.target = logit_percent(@), !.transform_target = TRUE]

DpTarget(m, tt) ==
    IF ~tt THEN m
    ELSE IF TransformFails(m.target)
         THEN [m EXCEPT !.transform_target = FALSE]
         ELSE [m EXCEPT !.target = logit_percent(@), !.transform_target = TRUE]

DpSource(X, flag, key, IsLog) ==
    IF flag /\ key \in DOMAIN X /\ ~TransformFails(X[key])
    THEN [X EXCEPT ![key] = IF IsLog THEN gtlog(@) ELSE logit_percent(@)]
    ELSE X

\* (variant: the calendar keeps its first entries)
KeepDates(datelist, discard) == datelist

\* self.datelist = self.datelist[discard:]
DiscardDates(datelist, discard) == Drop(datelist, discard)

DpAr(m, X, ar, order) ==
    LET discard == IF ar.kind = "int" THEN ar.n ELSE SetMax(ar.lags)
        lags    == IF ar.kind = "int" THEN 1..ar.n ELSE ar.lags
        X1      == [k \in DOMAIN X |-> Drop(X[k], discard)]
        m1      == [m EXCEPT !.datelist = DiscardDates(@, discard)]
        built   == ~ArFails(m.target, lags)
        X2      == IF built
                   THEN [k \in DOMAIN X1 \cup {"ar"} |->
                           IF k = "ar" THEN create_ar_stack(m.target, lags) ELSE X1[k]]
                   ELSE X1
        looping == built /\ Cardinality(DOMAIN X2) > 1
        other   == FirstKey(DOMAIN X2, order)
        spin    == looping /\ other = "ar"
        X3      == IF looping /\ ~spin
                   THEN [X2 EXCEPT !["ar"] = Take(@, Len(X2[other]))]
                   ELSE X2
        m2      == [m1 EXCEPT !.target = Drop(@, discard),
                              !.target_reserve = Drop(@, discard)]
    IN IF spin THEN [m |-> m1, X |-> X2, err |-> "ok", hung |-> TRUE]
       ELSE [m |-> m2, X |-> X3, err |-> "ok", hung |-> FALSE]

data_process(m, ds, tt, ta, tg, ar, order) ==
    IF m.kind # "Predictor"
    THEN [m |-> m, ds |-> ds, err |-> "AttributeError", hung |-> FALSE]
    ELSE
    LET m1 == DpTarget(m, tt)
        X1 == DpSource(ds[m.X], ta, "ath", FALSE)
        X2 == DpSource(X1, tg, "gt", TRUE)
    IN CASE ar.kind = "none" ->
              [m |-> m1, ds |-> [ds EXCEPT ![m.X] = X2], err |-> "ok", hung |-> FALSE]
         [] ar.kind = "str" ->
              [m |-> m1, ds |-> [ds EXCEPT ![m.X] = X2], err |-> "TypeError", hung |-> FALSE]
         [] OTHER ->
              LET r == DpAr(m1, X2, ar, order)
              IN [m |-> r.m, ds |-> [ds EXCEPT ![m.X] = r.X], err |-> r.err, hung |-> r.hung]

----------------------------------------------------------------------------
(* argo_class.ARGO(...).make_predictions: one prediction per eligible step *)
(* of the slice it is given: the steps after the training window when out  *)
(* of sample, every step when in sample, less the 2*horizon steps that the *)
(* caller pads; prediction j is in the domain of the target it is for.     *)

make_predictions(X_stack, target, horizon, training, in_sample) ==
    LET off == (IF in_sample THEN 0 ELSE training) + 2 * horizon
        n   == Max(0, Len(target) - off)
    IN [j \in 1..n |-> [d |-> target[off + j].d, bad |-> FALSE, tr |-> target[off + j].tr]]

(* Predictor.predict *)

ResolveTrainLen(train_len, resolution) ==
    IF train_len # TrainDefault THEN train_len
    ELSE IF resolution = "week" THEN WeekDefault ELSE MonthDefault

StackTerms(input_vars) == IF input_vars = AllSentinel THEN <<"ath", "gt", "ar">> ELSE input_vars

\* np.hstack of the chosen sources: "KeyError", "ValueError" or "ok"
StackErr(X, terms) ==
    IF \E i \in 1..Len(terms) : terms[i] \notin DOMAIN X THEN "KeyError"
    ELSE IF terms = <<>> \/ \E i \in 1..Len(terms) : Len(X[terms[i]]) # Len(X[terms[1]])
         THEN "ValueError" ELSE "ok"
Stack(X, terms) == [i \in 1..Len(X[terms[1]]) |-> [j \in 1..Len(terms) |-> X[terms[j]][i]]]

\* (variant: the window starts one step late)
TrainStartLate(shift, train_len) == shift - train_len + 1

\* shift_vars = shift - train_len
TrainStart(shift, train_len) == shift - train_len

\* (variant: the assertion lets a window that starts one step early pass)
InsufficientHistoryLate(shift_vars) == shift_vars < -1

\* assert (shift_vars >= 0)
InsufficientHistory(shift_vars) == shift_vars < 0

\* (variant: one marker per horizon step)
PadLenSingle(horizon) == horizon

\* the number of nan markers inserted in front of the predictions
PadLen(horizon) == 2 * horizon

NoObs == [shift |-> -1, shift_vars |-> -1, shift_dates |-> -1, n |-> -1]

predict(m, ds, input_vars, horizon, train_len_arg, in_sample) ==
    IF m.kind # "Predictor" THEN [m |-> m, err |-> "AttributeError", obs |-> NoObs]
    ELSE
    LET X           == ds[m.X]
        terms       == StackTerms(input_vars)
        serr        == StackErr(X, terms)
        train_len   == ResolveTrainLen(train_len_arg, m.resolution)
        shift       == IndexOf(m.datelist, m.start_date)
        shift_vars  == TrainStart(shift, train_len)
        shift_dates == shift - (IF in_sample THEN train_len ELSE 0)
        X_stack     == Drop(Stack(X, terms), shift_vars)
        target1     == Drop(m.target, shift_vars)
        raw         == make_predictions(X_stack, target1, horizon, train_len, in_sample)
        raw1        == IF m.transform_target THEN inverse_logit_percent(raw) ELSE raw
        target2     == IF m.transform_target THEN inverse_logit_percent(target1) ELSE target1
        target3     == IF in_sample THEN target2 ELSE Drop(target2, train_len)
        obs         == [shift |-> shift, shift_vars |-> shift_vars,
                        shift_dates |-> shift_dates,
                        n |-> IF shift_vars < 0 THEN -1 ELSE Len(raw)]
    IN IF serr # "ok" THEN [m |-> m, err |-> serr, obs |-> NoObs]
       ELSE IF shift = -1 THEN [m |-> m, err |-> "ValueError", obs |-> NoObs]
       ELSE IF InsufficientHistory(shift_vars)
            THEN [m |-> m, err |-> "AssertionError", obs |-> obs]
       ELSE [m |-> [m EXCEPT !.target = target3,
                             !.target_reserve = Drop(@, shift_vars),
                             !.datelist = Drop(@, shift_dates),
                             !.predictions = Some(Repeat(NaN, PadLen(horizon)) \o raw1)],
             err |-> "ok", obs |-> obs]

----------------------------------------------------------------------------------------------------------------------------------------
(* The dict heap *)

FreshId(ds) == CHOOSE i \in 0..(MaxUnits + 1) : i \notin DOMAIN ds /\ \A j \in 0..(i - 1) : j \in DOMAIN ds
Extend(ds, id, X) == [i \in DOMAIN ds \cup {id} |-> IF i = id THEN X ELSE ds[i]]
\* the heap restricted to the dicts that Geo_model or a listed unit still holds
Collect(ds, ml) == [i \in {GeoDict} \cup ({ml[k].X : k \in 1..Len(ml)} \ {NoDict}) |-> ds[i]]

\* (variant: the unit is handed Geo_model's own dict, no copy)
SharedInputs(ds) == [id |-> GeoDict, ds |-> ds]

\* copy.deepcopy(self.inputs): a new dict with the same content
DeepCopyInputs(ds) == [id |-> FreshId(ds), ds |-> Extend(ds, FreshId(ds), ds[GeoDict])]

----------------------------------------------------------------------------
(* Geo_model.save_predictions: the loop over the selected units, in order. *)
(* idxs are the positions in ml of the units still to slice.               *)

\* the positions of the units whose label is in the list
Matching(ml, labels) ==
    LET S == {labels[i] : i \in 1..Len(labels)}
        F[k \in 0..Len(ml)] ==
            IF k = 0 THEN <<>>
            ELSE IF ml[k].label \in S THEN Append(F[k - 1], k) ELSE F[k - 1]
    IN F[Len(ml)]
AllUnits(ml) == [k \in 1..Len(ml) |-> k]

\* s of save_predictions: 'all', a list of labels, or a value that the
\* membership test rejects (the except branch: all models)
ExportSelection(ml, model_labels) ==
    IF model_labels = AllSentinel THEN AllUnits(ml)
    ELSE IF model_labels = NotIterable THEN (IF ml = <<>> THEN <<>> ELSE AllUnits(ml))
    ELSE Matching(ml, model_labels)

\* (variant: the slice starts one entry after the start date)
ExportUnitOffByOne(m, start) ==
    LET shift == IndexOf(m.datelist, start)
        m1 == [m EXCEPT !.datelist = Drop(@, shift + 1), !.target = Drop(@, shift + 1)]
    IN IF shift = -1 THEN [m |-> m, err |-> "ValueError"]
       ELSE IF m.predictions = None THEN [m |-> m1, err |-> "TypeError"]
       ELSE [m |-> [m1 EXCEPT !.predictions = Some(Drop(@[1], shift + 1))], err |-> "ok"]

ExportUnit(m, start) ==
    LET shift == IndexOf(m.datelist, start)
        m1 == [m EXCEPT !.datelist = Drop(@, shift), !.target = Drop(@, shift)]
    IN IF shift = -1 THEN [m |-> m, err |-> "ValueError"]
       ELSE IF m.predictions = None THEN [m |-> m1, err |-> "TypeError"]
       ELSE [m |-> [m1 EXCEPT !.predictions = Some(Drop(@[1], shift))], err |-> "ok"]

RECURSIVE ExportLoop(_, _, _)
ExportLoop(ml, idxs, start) ==
    IF idxs = <<>> THEN [ml |-> ml, err |-> "ok"]
    ELSE Only({ IF r.err # "ok" THEN [ml |-> [ml EXCEPT ![Head(idxs)] = r.m], err |-> r.err]
                ELSE ExportLoop([ml EXCEPT ![Head(idxs)] = r.m], Tail(idxs), start) :
                r \in { ExportUnit(ml[Head(idxs)], start) } })

save_predictions(ml, start, model_labels) ==
    LET s == ExportSelection(ml, model_labels)
    IN Only({ IF r.err # "ok" THEN r
              ELSE IF s = <<>> THEN [ml |-> ml, err |-> "IndexError"]
              ELSE r :
              r \in { ExportLoop(ml, s, start) } })

----------------------------------------------------------------------------
(* Geo_model.ensemble *)

\* whether the name argo_functions is bound in the module (it is used by
\* ensemble and by predict's metrics report but is not among the imports)
ArgoFunctionsBound == FALSE

\* argo_functions.ensemble_dispatcher[method]: one value per row of the stack
ensemble_dispatch(model_stack) ==
    [j \in 1..Len(model_stack) |-> [d |-> model_stack[j][1].d, bad |-> FALSE, tr |-> 0]]

NoStack == [labels |-> <<>>, rows |-> -1]

\* (variant: the new unit is appended before the members are looked at)
EnsembleAppendFirst(ml, ens_label, ind_labels, horizon, train_len, in_sample) ==
    [ml |-> Append(ml, NewEns(<<>>, <<>>, ens_label, <<>>)), err |-> "TypeError",
     stack |-> NoStack]

ensemble(ml, ens_label, ind_labels, horizon, train_len, in_sample) ==
    LET compat_list == Matching(ml, ind_labels)
        n == Len(compat_list)
        pred(i) == Drop(ml[compat_list[i]].predictions[1], 2 * horizon)
        rows == Len(pred(1))
        model_stack == [j \in 1..rows |-> [i \in 1..n |-> pred(i)[j]]]
        first == ml[compat_list[1]]
        ens_target == IF in_sample THEN first.target ELSE Drop(first.target, train_len)
        ens_datelist == IF in_sample THEN first.datelist ELSE Drop(first.datelist, train_len)
        ens_pred == Repeat(NaN, PadLen(horizon)) \o ensemble_dispatch(model_stack)
        stack == [labels |-> [i \in 1..n |-> ml[compat_list[i]].label], rows |-> rows]
    IN IF \E i \in 1..n : ml[compat_list[i]].predictions = None
       THEN [ml |-> ml, err |-> "TypeError", stack |-> NoStack]
       ELSE IF n = 0 \/ \E i \in 1..n : Len(pred(i)) # rows
       THEN [ml |-> ml, err |-> "ValueError", stack |-> NoStack]
       ELSE IF ~ArgoFunctionsBound
       THEN [ml |-> ml, err |-> "NameError", stack |-> stack]
       ELSE [ml |-> Append(ml, NewEns(ens_target, ens_pred, ens_label, ens_datelist)),
             err |-> "ok", stack |-> stack]

----------------------------------------------------------------------------
(* Geo_model.init_prediction_layer *)

RECURSIVE NewLayer(_, _, _, _)
NewLayer(ds, ml, g, n) ==
    IF Len(ml) >= n THEN [ml |-> ml, ds |-> ds]
    ELSE Only({ NewLayer(c.ds,
                         Append(ml, NewPredictor(c.id, g.target[1], LayerLabels[Len(ml) + 1],
                                                 g.pred_start_date, g.datelist[1],
                                                 g.resolution)),
                         g, n) :
                c \in { DeepCopyInputs(ds) } })

\* the loop over the new units from the i-th on: data_process, then predict
RECURSIVE LayerLoop(_, _, _, _, _)
LayerLoop(ml, ds, i, dc, pc) ==
    IF i > Len(ml) THEN [ml |-> ml, ds |-> ds, err |-> "ok", hung |-> FALSE]
    ELSE Only({
           IF r1.hung \/ r1.err # "ok"
           THEN [ml |-> [ml EXCEPT ![i] = r1.m], ds |-> r1.ds, err |-> r1.err, hung |-> r1.hung]
           ELSE Only({
                  IF r2.err # "ok"
                  THEN [ml |-> [ml EXCEPT ![i] = r2.m], ds |-> r1.ds, err |-> r2.err,
                        hung |-> FALSE]
                  ELSE LayerLoop([ml EXCEPT ![i] = r2.m], r1.ds, i + 1, dc, pc) :
                  r2 \in { predict(r1.m, r1.ds, pc.input_vars, pc.horizon, pc.train_len,
                                   pc.in_sample) } }) :
           r1 \in { data_process(ml[i], ds, dc.tt, dc.ta, dc.tg, dc.ar, dc.order) } })

init_prediction_layer(ds, g, n, dc, pc) ==
    Only({ LayerLoop(c.ml, c.ds, 1, dc, pc) : c \in { NewLayer(Collect(ds, <<>>), <<>>, g, n) } })

----------------------------------------------------------------------------
(* State *)

Snapshot == [model_list |-> model_list, dicts |-> dicts, geo |-> geo]
NoArg == [none |-> TRUE]
NoPrior == <<"*none*">>      \* the call before was not a completed save_predictions

\* Geo_model.__init__(pred_start_date, resolution)
Init ==
    /\ \E c \in Constructions :
          geo = [loaded |-> FALSE, target |-> None, datelist |-> None,
                 pred_start_date |-> UseDataFrom + c[1], resolution |-> c[2]]
    /\ dicts = [i \in {GeoDict} |-> <<>>]
    /\ model_list = <<>>
    /\ last = [op |-> "init", u |-> 0, err |-> "ok", arg |-> NoArg, obs |-> NoObs]
    /\ prev = [model_list |-> <<>>, dicts |-> [i \in {GeoDict} |-> <<>>],
               geo |-> [loaded |-> FALSE, target |-> None, datelist |-> None,
                        pred_start_date |-> 0, resolution |-> ""]]
    /\ hung = FALSE
    /\ calls = 0

\* Geo_model.data_load: a target of n observations, the sources srcs one step
\* longer; the series named in zeros have a zero as their last value
DataLoad(n, srcs, zeros) ==
    /\ ~hung
    /\ ~geo.loaded
    /\ LET inputs == [k \in srcs |-> Series(n + 1, IF k \in zeros THEN n + 1 ELSE 0)]
           longest == IF srcs = {} THEN n ELSE n + 1
       IN /\ dicts' = [dicts EXCEPT ![GeoDict] = inputs]
          /\ geo' = [geo EXCEPT !.loaded = TRUE,
                                !.target = Some(Series(n, IF "target" \in zeros THEN n ELSE 0)),
                                !.datelist = Some(create_datelist(longest))]
    /\ prev' = Snapshot
    /\ last' = [op |-> "data_load", u |-> 0, err |-> "ok", arg |-> NoArg, obs |-> NoObs]
    /\ UNCHANGED <<model_list, hung, calls>>

\* Geo_model.init_predictor(label)
InitPredictor(label) ==
    /\ ~hung
    /\ geo.loaded
    /\ Len(model_list) < MaxUnits
    /\ \E c \in { DeepCopyInputs(dicts) } :
          /\ dicts' = c.ds
          /\ model_list' = Append(model_list,
                 NewPredictor(c.id, geo.target[1], label, geo.pred_start_date,
                              geo.datelist[1], geo.resolution))
    /\ prev' = Snapshot
    /\ last' = [op |-> "init_predictor", u |-> Len(model_list) + 1, err |-> "ok",
                arg |-> NoArg, obs |-> NoObs]
    /\ UNCHANGED <<geo, hung, calls>>

\* Geo_model.init_prediction_layer(n, labels, process_specs, predict_specs),
\* every unit with the process spec dc and the predict spec pc
InitPredictionLayer(n, dc, pc) ==
    /\ ~hung
    /\ geo.loaded
    /\ \E r \in { init_prediction_layer(dicts, geo, n, dc, pc) } :
          /\ model_list' = r.ml
          /\ dicts' = r.ds
          /\ hung' = r.hung
          /\ last' = [op |-> "init_prediction_layer", u |-> 0, err |-> r.err,
                      arg |-> [n |-> n, dc |-> dc, pc |-> pc], obs |-> NoObs]
    /\ prev' = Snapshot
    /\ UNCHANGED <<geo, calls>>

\* model.data_process(...) on the u-th unit of model_list
DataProcess(u, c) ==
    /\ ~hung
    /\ calls < MaxCalls
    /\ u \in 1..Len(model_list)
    /\ \E r \in { data_process(model_list[u], dicts, c.tt, c.ta, c.tg, c.ar, c.order) } :
          /\ model_list' = [model_list EXCEPT ![u] = r.m]
          /\ dicts' = r.ds
          /\ hung' = r.hung
          /\ last' = [op |-> "data_process", u |-> u, err |-> r.err, arg |-> c, obs |-> NoObs]
    /\ prev' = Snapshot
    /\ calls' = calls + 1
    /\ UNCHANGED geo

\* model.predict(...) on the u-th unit of model_list
Predict(u, c) ==
    /\ ~hung
    /\ calls < MaxCalls
    /\ u \in 1..Len(model_list)
    /\ \E r \in { predict(model_list[u], dicts, c.input_vars, c.horizon, c.train_len,
                            c.in_sample) } :
          /\ model_list' = [model_list EXCEPT ![u] = r.m]
          /\ last' = [op |-> "predict", u |-> u, err |-> r.err, arg |-> c, obs |-> r.obs]
    /\ prev' = Snapshot
    /\ calls' = calls + 1
    /\ UNCHANGED <<geo, dicts, hung>>

\* Geo_model.ensemble(method, ens_label, ind_labels, horizon, train_len, in_sample)
Ensemble(ens_label, ind_labels, horizon, train_len, in_sample) ==
    /\ ~hung
    /\ calls < MaxCalls
    /\ geo.loaded
    /\ \E r \in { ensemble(model_list, ens_label, ind_labels, horizon, train_len, in_sample) } :
          /\ model_list' = r.ml
          /\ last' = [op |-> "ensemble", u |-> 0, err |-> r.err,
                      arg |-> [ens_label |-> ens_label, ind_labels |-> ind_labels,
                               horizon |-> horizon, train_len |-> train_len,
                               in_sample |-> in_sample],
                      obs |-> r.stack]
    /\ prev' = Snapshot
    /\ calls' = calls + 1
    /\ UNCHANGED <<geo, dicts, hung>>

\* Geo_model.save_predictions(fname, model_labels)
SavePredictions(model_labels) ==
    /\ ~hung
    /\ calls < MaxCalls
    /\ geo.loaded
    /\ \E r \in { save_predictions(model_list, geo.pred_start_date, model_labels) } :
          /\ model_list' = r.ml
          /\ last' = [op |-> "save_predictions", u |-> 0, err |-> r.err,
                      arg |-> [model_labels |-> model_labels],
                      obs |-> [prior |-> IF last.op = "save_predictions" /\ last.err = "ok"
                                         THEN last.arg.model_labels ELSE NoPrior]]
    /\ prev' = Snapshot
    /\ calls' = calls + 1
    /\ UNCHANGED <<geo, dicts, hung>>

\* a script that uses the whole interface on up to MaxUnits units: the units
\* are made one by one or as a layer, then up to MaxCalls calls work on them
Next ==
    \/ \E d \in DataSets : DataLoad(MaxLen, d[1], d[2])
    \/ calls = 0 /\ \E label \in Labels : InitPredictor(label)
    \/ calls = 0 /\ \E n \in 1..MaxUnits, c \in LayerSpecs : InitPredictionLayer(n, c[1], c[2])
    \/ \E u \in 1..MaxUnits, c \in DpFew : DataProcess(u, c)
    \/ \E u \in 1..MaxUnits, c \in PredictFew : Predict(u, c)
    \/ \E il \in LabelLists, c \in { <<0, FALSE>>, <<1, TRUE>> } :
          Ensemble("E", il, c[1], 1, c[2])
    \/ \E ml \in LabelLists \cup {AllSentinel, NotIterable} : SavePredictions(ml)

Spec == Init /\ [][Next]_vars

\* a script that works on one unit, with every kind of call
NextUnit ==
    \/ \E n \in TargetLens, d \in DataSetsUnit : DataLoad(n, d[1], d[2])
    \/ DataLoad(ScenarioLen, {"gt"}, {})
    \/ model_list = <<>> /\ InitPredictor("A")
    \/ \E c \in DpCalls : DataProcess(1, c)
    \/ \E c \in PredictCalls : Predict(1, c)

SpecUnit == Init /\ [][NextUnit]_vars

----------------------------------------------------------------------------
(* Properties *)

Unit(i) == model_list[i]
Before(i) == prev.model_list[i]
Inputs(i) == dicts[model_list[i].X]
InputsBefore(i) == prev.dicts[prev.model_list[i].X]

\* what a unit carries: input dataset, target, reserve, calendar, predictions
View(ml, ds, i) ==
    [X |-> IF ml[i].X = NoDict THEN <<>> ELSE ds[ml[i].X], target |-> ml[i].target,
     target_reserve |-> ml[i].target_reserve, datelist |-> ml[i].datelist,
     predictions |-> ml[i].predictions]

GeoUnchanged == geo = prev.geo /\ dicts[GeoDict] = prev.dicts[GeoDict]

IsMarker(e) == e.d = -1
LeadingMarkers(p, k) == Len(p) >= k /\ \A i \in 1..k : IsMarker(p[i])

(* C1: unit isolation.  A data_process or predict call on one unit leaves  *)
(* every other unit's input dataset, target, target reserve, calendar and  *)
(* predictions, and Geo_model's inputs, target and datelist, as they were;  *)
(* the units that init_prediction_layer creates and processes with the same *)
(* specs end up carrying the same data, and Geo_model's data is untouched.  *)
C1_UnitIsolation ==
    /\ last.op \in {"data_process", "predict"} =>
          /\ GeoUnchanged
          /\ Len(model_list) = Len(prev.model_list)
          /\ \A v \in 1..Len(model_list) :
                v # last.u => View(model_list, dicts, v) = View(prev.model_list, prev.dicts, v)
    /\ last.op = "init_prediction_layer" =>
          /\ GeoUnchanged
          /\ (last.err = "ok" /\ ~hung) =>
                \A v \in 1..Len(model_list) :
                    View(model_list, dicts, v) = View(model_list, dicts, 1)

\* a data_process call changed a unit while a sibling unit exists
C1_Witness ==
    /\ last.op = "data_process"
    /\ Len(model_list) = 2
    /\ "ar" \in DOMAIN Inputs(last.u)
    /\ View(model_list, dicts, last.u) # View(prev.model_list, prev.dicts, last.u)

\* the state of a predict call: the unit before it, its training window width
PredictStart == Before(last.u).start_date
PredictTrainLen == ResolveTrainLen(last.arg.train_len, Before(last.u).resolution)
OnCalendar(cal, d) == cal # <<>> /\ cal[1] <= d /\ d <= cal[Len(cal)]
PredictReachesWindow ==
    /\ last.op = "predict"
    /\ Before(last.u).kind = "Predictor"
    /\ StackErr(InputsBefore(last.u), StackTerms(last.arg.input_vars)) = "ok"
    /\ OnCalendar(Before(last.u).datelist, PredictStart)

(* C2: insufficient history.  A predict call whose start_date lies fewer    *)
(* than train_len periods after the first date of the unit's calendar (the  *)
(* chosen sources having been stacked) fails with the assertion, and the    *)
(* unit's target, target reserve, calendar and predictions are unchanged.   *)
C2_InsufficientHistory ==
    (PredictReachesWindow /\ PredictStart - Before(last.u).datelist[1] < PredictTrainLen) =>
        /\ last.err = "AssertionError"
        /\ Unit(last.u) = Before(last.u)
        /\ dicts = prev.dicts

\* such a call on a unit that already went through data_process with lags
C2_Witness ==
    /\ PredictReachesWindow
    /\ PredictStart - Before(last.u).datelist[1] = PredictTrainLen - 1
    /\ last.err = "AssertionError"
    /\ "ar" \in DOMAIN Inputs(last.u)

\* a completed out-of-sample predict call on a unit of a data set whose
\* inputs are one step longer than the target
OutOfSampleDone ==
    /\ last.op = "predict"
    /\ last.err = "ok"
    /\ ~last.arg.in_sample
    /\ DOMAIN dicts[GeoDict] # {}

SelectedBefore(labels) == Matching(prev.model_list, labels)
AllLabelsBefore == [i \in 1..Len(prev.model_list) |-> prev.model_list[i].label]

(* C4: label-selection fallback.  When save_predictions or ensemble is      *)
(* given a list of labels none of which is the label of a registered unit,  *)
(* the call does not fail where the same call on all registered units does  *)
(* not, and leaves the units as that call would.                           *)
C4_LabelFallback ==
    /\ (/\ last.op = "save_predictions"
        /\ last.arg.model_labels \notin {AllSentinel, NotIterable}
        /\ prev.model_list # <<>>
        /\ SelectedBefore(last.arg.model_labels) = <<>>) =>
          LET r == save_predictions(prev.model_list, geo.pred_start_date, AllSentinel)
          IN r.err = "ok" => (model_list = r.ml /\ last.err = "ok")
    /\ (/\ last.op = "ensemble"
        /\ prev.model_list # <<>>
        /\ SelectedBefore(last.arg.ind_labels) = <<>>) =>
          LET a == last.arg
              r == ensemble(prev.model_list, a.ens_label, AllLabelsBefore, a.horizon,
                            a.train_len, a.in_sample)
          IN r.err \notin {"TypeError", "ValueError"} =>
                (model_list = r.ml /\ last.err = r.err)

IsSuffix(a, b) == \E k \in 0..Len(b) : a = Drop(b, k)

\* the transforms that the last data_process call asked for and that failed
TargetFailed ==
    last.arg.tt /\ TransformFails(Before(last.u).target)
SourceFailed(flag, key) ==
    flag /\ key \in DOMAIN InputsBefore(last.u) /\ TransformFails(InputsBefore(last.u)[key])

(* C5: transform fail-soft.  When data_process is asked for a transform of  *)
(* the target, of 'ath' or of 'gt' and that transform fails, the series is  *)
(* left as it was (up to the lag discarding of the same call), the target's *)
(* transform flag is false, no exception of the transform leaves the call,  *)
(* and everything else the call does is what the same call without the      *)
(* failed transform does.                                                  *)
C5_TransformFailSoft ==
    (/\ last.op = "data_process"
     /\ Before(last.u).kind = "Predictor"
     /\ TargetFailed \/ SourceFailed(last.arg.ta, "ath") \/ SourceFailed(last.arg.tg, "gt")) =>
        LET a  == last.arg
            ft == TargetFailed
            fa == SourceFailed(a.ta, "ath")
            fg == SourceFailed(a.tg, "gt")
            r  == data_process(Before(last.u), prev.dicts, a.tt /\ ~ft, a.ta /\ ~fa,
                               a.tg /\ ~fg, a.ar, a.order)
        IN /\ ft => /\ ~Unit(last.u).transform_target
                    /\ IsSuffix(Unit(last.u).target, Before(last.u).target)
           /\ fa => IsSuffix(Inputs(last.u)["ath"], InputsBefore(last.u)["ath"])
           /\ fg => IsSuffix(Inputs(last.u)["gt"], InputsBefore(last.u)["gt"])
           /\ (a.ar.kind # "str") => last.err = "ok"
           /\ last.err = r.err
           /\ hung = r.hung
           /\ dicts = r.ds
           /\ Unit(last.u) = [r.m EXCEPT !.transform_target = IF ft THEN FALSE ELSE @]

\* target and 'gt' transforms failed and the AR block was still built
C5_Witness ==
    /\ last.op = "data_process"
    /\ TargetFailed
    /\ SourceFailed(last.arg.tg, "gt")
    /\ last.arg.ar.kind = "int"
    /\ ~hung
    /\ "ar" \in DOMAIN Inputs(last.u)
    /\ Len(Unit(last.u).target) = Len(Before(last.u).target) - 1

(* C6: ensemble ordering.  An ensemble call adds a unit only if every       *)
(* selected member has a prediction array; a call made while a selected     *)
(* member has predictions = None fails and leaves the unit list unchanged.  *)
C6_EnsembleOrdering ==
    last.op = "ensemble" =>
        LET c == SelectedBefore(last.arg.ind_labels)
            pending == \E i \in 1..Len(c) : prev.model_list[c[i]].predictions = None
        IN /\ model_list # prev.model_list => ~pending
           /\ pending => (model_list = prev.model_list /\ last.err # "ok")

\* an ensemble call over one member that has predicted and one that has not
C6_Witness ==
    /\ last.op = "ensemble"
    /\ last.err = "TypeError"
    /\ LET c == SelectedBefore(last.arg.ind_labels)
       IN /\ Len(c) = 2
          /\ prev.model_list[c[1]].predictions # None
          /\ prev.model_list[c[2]].predictions = None

\* an out-of-sample ensemble call over members that all hold the same
\* number of predictions with 2*horizon leading markers
EnsembleReady ==
    /\ last.op = "ensemble"
    /\ ~last.arg.in_sample
    /\ LET c == SelectedBefore(last.arg.ind_labels)
       IN /\ c # <<>>
          /\ \A i \in 1..Len(c) :
                /\ prev.model_list[c[i]].predictions # None
                /\ Len(prev.model_list[c[i]].predictions[1])
                     = Len(prev.model_list[c[1]].predictions[1])
                /\ LeadingMarkers(prev.model_list[c[i]].predictions[1], 2 * last.arg.horizon)

(* C7: ensemble alignment.  For members that each hold P predictions with   *)
(* 2*horizon leading markers, an out-of-sample ensemble call stacks a       *)
(* (P - 2*horizon) x members matrix in registration order and registers a   *)
(* unit whose predictions have exactly 2*horizon leading markers, with the  *)
(* first member's target and calendar less their first train_len entries.   *)
C7_EnsembleAlignment ==
    EnsembleReady =>
        LET a == last.arg
            c == SelectedBefore(a.ind_labels)
            first == prev.model_list[c[1]]
            P == Len(first.predictions[1])
        IN /\ last.obs.rows = P - 2 * a.horizon
           /\ last.obs.labels = [i \in 1..Len(c) |-> prev.model_list[c[i]].label]
           /\ last.err = "ok"
           /\ Len(model_list) = Len(prev.model_list) + 1
           /\ LET e == model_list[Len(model_list)]
              IN /\ e.label = a.ens_label
                 /\ LeadingMarkers(e.predictions[1], 2 * a.horizon)
                 /\ \A i \in (2 * a.horizon + 1)..Len(e.predictions[1]) :
                       ~IsMarker(e.predictions[1][i])
                 /\ e.target = Drop(first.target, a.train_len)
                 /\ e.datelist = Drop(first.datelist, a.train_len)

PredictDone == last.op = "predict" /\ last.err = "ok"

\* the offsets of the last predict call, from the dates
OffsetsRight ==
    /\ last.obs.shift = PredictStart - Before(last.u).datelist[1]
    /\ last.obs.shift_vars = last.obs.shift - PredictTrainLen
\* the k leading entries are markers, the others are not
PaddedBy(p, k) == LeadingMarkers(p, k) /\ \A i \in (k + 1)..Len(p) : ~IsMarker(p[i])

\* the five-year weekly scenario: 260 targets from 2010-01-03, start
\* 2013-01-06, train_len 104, horizon 0
ScenarioCall ==
    /\ PredictDone
    /\ Len(Before(last.u).target) = ScenarioLen
    /\ Before(last.u).datelist[1] = UseDataFrom
    /\ PredictStart = UseDataFrom + DefaultStart
    /\ PredictTrainLen = WeekDefault
    /\ last.arg.horizon = 0

ExportSelected == ExportSelection(prev.model_list, last.arg.model_labels)
StartsAtExportDate(m) == m.datelist # <<>> /\ m.datelist[1] = geo.pred_start_date
ExportKeepsAligned ==
    last.op = "save_predictions" =>
        \A k \in 1..Len(ExportSelected) :
            StartsAtExportDate(Before(ExportSelected[k])) =>
                Unit(ExportSelected[k]) = Before(ExportSelected[k])

(* C9 as stated: save_predictions leaves a selected unit whose calendar[0]  *)
(* is the export start date unchanged, and after one completed export any   *)
(* further export with the same start date changes no unit.                *)
C9_AsStated ==
    /\ ExportKeepsAligned
    /\ (last.op = "save_predictions" /\ last.obs.prior # NoPrior) =>
          model_list = prev.model_list

(* C9 amended: save_predictions leaves a selected unit whose calendar[0] is *)
(* the export start date unchanged, and after one completed export a        *)
(* further export of the same selection with the same start date changes no *)
(* unit.                                                                   *)
C9_ExportNoOp ==
    /\ ExportKeepsAligned
    /\ (last.op = "save_predictions" /\ last.obs.prior = last.arg.model_labels) =>
          (model_list = prev.model_list /\ last.err = "ok")

\* the second of two exports of the same two units
C9_Witness ==
    /\ last.op = "save_predictions"
    /\ last.obs.prior = last.arg.model_labels
    /\ Len(ExportSelected) = 2
    /\ \A k \in 1..2 : StartsAtExportDate(Before(ExportSelected[k]))

\* the arrays a unit carries with its calendar
Carried(m) ==
    { m.target } \cup (IF m.predictions = None THEN {} ELSE { m.predictions[1] })
    \cup (IF m.X = NoDict THEN {} ELSE { dicts[m.X][k] : k \in DOMAIN dicts[m.X] })
EndOf(a) == a[Len(a)]

InputLead == IF DOMAIN dicts[GeoDict] = {} THEN 0 ELSE 1
\* the array ends on the calendar's last date
EndsWithCalendar(a, m) == (a # <<>> /\ m.datelist # <<>>) => EndOf(a).d = EndOf(m.datelist)
\* the array ends on the target's last date, InputLead periods before the calendar's
EndsWithTarget(a, m) ==
    (a # <<>> /\ m.datelist # <<>> /\ ~IsMarker(EndOf(a))) =>
        EndOf(a).d = EndOf(m.datelist) - InputLead
\* the target is no longer than the calendar and its j-th entry belongs to
\* the calendar's j-th date
TargetOnCalendar(m) ==
    \A j \in 1..Len(m.target) : j <= Len(m.datelist) /\ m.target[j].d = m.datelist[j]

ArCall ==
    /\ last.op = "data_process"
    /\ last.arg.ar.kind \in {"int", "set"}
    /\ DOMAIN InputsBefore(last.u) # {}
    /\ \A k \in DOMAIN InputsBefore(last.u) :
          Len(InputsBefore(last.u)[k]) = Len(Before(last.u).target) + 1
ArReturned == ArCall /\ ~hung /\ last.err = "ok"
ArMaxLag == IF last.arg.ar.kind = "int" THEN last.arg.ar.n ELSE SetMax(last.arg.ar.lags)

\* the first L entries are gone from every other source, the calendar and the target
ArDiscarded ==
    /\ \A k \in DOMAIN InputsBefore(last.u) :
          Len(Inputs(last.u)[k]) = Len(InputsBefore(last.u)[k]) - ArMaxLag
    /\ Unit(last.u).datelist = Drop(Before(last.u).datelist, ArMaxLag)
    /\ Len(Unit(last.u).target) = Len(Before(last.u).target) - ArMaxLag
\* row i of every source belongs to the calendar's i-th date
RowsOnCalendar ==
    \A k \in DOMAIN Inputs(last.u) : \A i \in 1..Len(Inputs(last.u)[k]) :
        i <= Len(Unit(last.u).datelist) /\ Inputs(last.u)[k][i].d = Unit(last.u).datelist[i]
\* every source, the "ar" block included, has the same number of rows
SameRows ==
    /\ "ar" \in DOMAIN Inputs(last.u)
    /\ \A k \in DOMAIN Inputs(last.u) : Len(Inputs(last.u)[k]) = Len(Inputs(last.u)["ar"])

(* C11: AR co-indexing.  After data_process with AR lags of maximum L on a  *)
(* unit whose inputs are one step longer than the target, the first L       *)
(* entries are gone from every other input, from the calendar and from the  *)
(* target, every source including the "ar" block has the same number of     *)
(* rows, and row i of every source belongs to the same calendar date.       *)
C11_ArCoIndexing == ArReturned => (ArDiscarded /\ SameRows /\ RowsOnCalendar)

\* what does hold of such a call: the discarding and the dates of the rows
ArRowsAligned == ArReturned => (ArDiscarded /\ RowsOnCalendar)
\* the "ar" block is one row shorter than its siblings
ArOneShort ==
    ArReturned =>
        \A k \in DOMAIN InputsBefore(last.u) :
            Len(Inputs(last.u)[k]) = Len(Inputs(last.u)["ar"]) + 1
\* a source and the "ar" block of such a unit do not stack in predict
ArStackRefused ==
    (/\ last.op = "predict"
     /\ last.arg.input_vars = <<"gt", "ar">>
     /\ prev.dicts[Before(last.u).X] = Inputs(last.u)
     /\ {"gt", "ar"} \subseteq DOMAIN Inputs(last.u)
     /\ Len(Inputs(last.u)["gt"]) = Len(Inputs(last.u)["ar"]) + 1) => last.err = "ValueError"

\* the last call was data_process with AR lags (whether or not it returned)
ArAsked == last.op = "data_process" /\ last.arg.ar.kind \in {"int", "set"}
\* "ar" comes first in the iteration order of the dict that holds other sources
ArFirstAmongOthers ==
    /\ DOMAIN InputsBefore(last.u) \ {"ar"} # {}
    /\ FirstKey(DOMAIN InputsBefore(last.u) \cup {"ar"}, last.arg.order) = "ar"

(* C12: termination of the AR truncation.  For every iteration order of the *)
(* input mapping and every set of loaded sources, a data_process call with  *)
(* AR lags returns: the loop that looks for a sibling of "ar" exits, also   *)
(* when "ar" is the first key and other sources are present.                *)
C12_ArLoopExits == ArAsked => ~hung

\* the calls that never return are exactly those that meet "ar" first
ArLoopSpins ==
    ArAsked => (hung <=> (ArFirstAmongOthers /\ ~ArFails(Before(last.u).target,
                              IF last.arg.ar.kind = "int" THEN 1..last.arg.ar.n
                              ELSE last.arg.ar.lags)))

====
